---- MODULE Spec2Model ----
(***************************************************************************)
(* Model of the 2d-platformer-controller repository.                       *)
(*                                                                         *)
(* Two drafts of the controller live in the repository:                    *)
(*   - src/src/character_controller.rs : CharacterControllerPlugin, a      *)
(*     chain of Update systems plus kinematic_collision_response, which    *)
(*     calls collide_and_slide once per axis;                              *)
(*   - src/src/main.rs : ControllerPlugin (controller_input,               *)
(*     controller_movement, collision_response).                           *)
(* Spec models the first, MainSpec the second, MovementSpec the            *)
(* `movement` system on arbitrary event streams.                           *)
(*                                                                         *)
(* Numbers.  f32 quantities are fixed-point integers:                      *)
(*   lengths     in 1/1000 world unit,                                     *)
(*   velocities  in 1/1000 world unit per second,                          *)
(*   time steps  in milliseconds,                                          *)
(*   factors     in 1/1000 (damping 0.9 is 900),                           *)
(*   angles      in whole degrees.                                         *)
(* A product is rounded toward zero where f32 would round to nearest.      *)
(***************************************************************************)
EXTENDS Integers, Sequences, FiniteSets, TLC

(* ------------------------------ bounds -------------------------------- *)
MaxFrames == 2
MaxSteps == 2
MaxEvents == 3
MaxMainTicks == 2
MaxPending == 3

(* ------------------------- program constants -------------------------- *)
MAX_BOUNCES == 5
SKIN_WIDTH == 15

DefaultAcceleration == 30000
DefaultDamping == 900
DefaultJumpImpulse == 7000
DefaultMaxSlopeAngle == 81

(* ------------------------------ helpers ------------------------------- *)
Abs(n) == IF n < 0 THEN -n ELSE n

Sign(n) == IF n > 0 THEN 1 ELSE IF n < 0 THEN -1 ELSE 0

\* f32 product of two fixed-point numbers, `scale` being the unit of b
MulScaled(a, b, scale) ==
    IF a * b >= 0 THEN (a * b) \div scale ELSE -((-(a * b)) \div scale)

Zero == <<0, 0>>

VecAdd(a, b) == <<a[1] + b[1], a[2] + b[2]>>

Range(s) == {s[i] : i \in DOMAIN s}

Last(s) == s[Len(s)]

(* ----------------------------- state ---------------------------------- *)
VARIABLES
    config,        \* MovementBundle + Gravity + Rotation of the controller
    velocity,      \* LinearVelocity
    translation,   \* Transform.translation (x, y)
    grounded,      \* the controller carries the Grounded component
    hits,          \* ShapeHits of the ground caster: normal2 of each hit
    events,        \* MovementAction events written in the current frame
    seenGrounded,  \* Has<Grounded> as read by `movement`, one per event
    ran,           \* Update systems that have run in the current frame
    frame,         \* Update frames started
    steps,         \* physics steps taken
    world,         \* nearest surface along each axis direction
    calls,         \* collide_and_slide invocations of the last step
    mVelocity,     \* main.rs: LinearVelocity
    mTranslation,  \* main.rs: Transform.translation
    mEvents,       \* main.rs: unread ControllerMovement events
    mPhase,        \* main.rs: position inside a fixed tick
    mTicks         \* main.rs: fixed ticks taken

pluginVars == <<config, velocity, translation, grounded, hits, events,
                seenGrounded, ran, frame, steps, world, calls>>

mainVars == <<mVelocity, mTranslation, mEvents, mPhase, mTicks>>

vars == <<config, velocity, translation, grounded, hits, events,
          seenGrounded, ran, frame, steps, world, calls,
          mVelocity, mTranslation, mEvents, mPhase, mTicks>>

(* ------------------------- MovementAction ----------------------------- *)
Walk(d) == [kind |-> "Walk", direction |-> d]

Sprint(d) == [kind |-> "Sprint", direction |-> d]

Jump == [kind |-> "Jump", direction |-> 0]

Directions == {-1, 0, 1}

MovementAction == {Walk(d) : d \in Directions} \cup {Sprint(d) : d \in Directions} \cup {Jump}

(* ------------------------- controller set-up -------------------------- *)
\* Option<&MaxSlopeAngle>: None is the empty set, Some(a) the set {a}
NoMaxSlope == {}

Some(a) == {a}

\* MovementBundle::default(), optionally overridden by with_movement;
\* update_grounded takes MaxSlopeAngle as an Option
MovementBundles ==
    {[acceleration |-> DefaultAcceleration, damping |-> DefaultDamping,
      jump_impulse |-> DefaultJumpImpulse, max_slope_angle |-> a] :
        a \in {Some(DefaultMaxSlopeAngle), Some(45), NoMaxSlope}}

GravityVector == <<0, -25000>>

Rotations == {0, 30}

Configs ==
    {[movement |-> m, gravity |-> GravityVector, rotation |-> r] :
        m \in MovementBundles, r \in Rotations}

(* ------------------------- shape-query world -------------------------- *)
NoHit == [distance |-> -1, normal |-> Zero]

AxisDirections == {<<1, 0>>, <<-1, 0>>, <<0, 1>>, <<0, -1>>}

Floor == [distance |-> 4980, normal |-> <<0, 1000>>]

Wall == [distance |-> 1000, normal |-> <<-1000, 0>>]

\* what the spatial query pipeline holds around the controller: open space,
\* or a corner made of a floor below and a wall to the right
Clear == [d \in AxisDirections |-> NoHit]

Corner ==
    [d \in AxisDirections |->
        IF d = <<0, -1>> THEN Floor ELSE IF d = <<1, 0>> THEN Wall ELSE NoHit]

Worlds == {Clear, Corner}

\* SpatialQueryPipeline::cast_shape: the nearest surface within max_distance
cast_shape(w, direction, max_distance) ==
    IF direction \in DOMAIN w /\ w[direction] # NoHit
       /\ w[direction].distance <= max_distance
    THEN w[direction] ELSE NoHit

\* normal2 of a ground-caster hit, as the polar angle of the vector
HitNormals == {270, 210}

(* ----------------------------- Init ----------------------------------- *)
InitPlugin ==
    /\ config \in Configs
    /\ velocity = Zero
    /\ translation = Zero
    /\ grounded = FALSE
    /\ hits = {}
    /\ events = <<>>
    /\ seenGrounded = <<>>
    /\ ran = <<>>
    /\ frame = 0
    /\ steps = 0
    /\ world = Clear
    /\ calls = <<>>

CONTROLLER_INITIAL_POSITION == <<0, 100>>

InitMain ==
    /\ mVelocity = Zero
    /\ mTranslation = CONTROLLER_INITIAL_POSITION
    /\ mEvents = <<>>
    /\ mPhase = "idle"
    /\ mTicks = 0

Init == InitPlugin /\ InitMain

(* ===================== character_controller.rs ======================== *)

\* CharacterControllerPlugin::build: the chained Update systems, in order
UpdateChain_grounding_last ==
    <<"keyboard_input", "movement", "apply_gravity", "update_grounded", "apply_damping">>

UpdateChain ==
    <<"keyboard_input", "update_grounded", "apply_gravity", "movement", "apply_damping">>

\* between two Update frames: no system of the chain is part-way
AtFrameBoundary == ran = <<>> \/ Len(ran) = Len(UpdateChain)

\* the chain runs system s next
IsNext(s) ==
    IF AtFrameBoundary THEN UpdateChain[1] = s /\ frame < MaxFrames
    ELSE UpdateChain[Len(ran) + 1] = s

\* the chain moves on past system s
Advance(s) ==
    /\ ran' = IF AtFrameBoundary THEN <<s>> ELSE Append(ran, s)
    /\ frame' = IF AtFrameBoundary THEN frame + 1 ELSE frame

\* keyboard_input: the events one frame's key state produces
keyboard_events(left, right, shift, space) ==
    LET l == IF left THEN 1 ELSE 0
        r == IF right THEN 1 ELSE 0
        horizontal_direction == r - l
        walk == IF horizontal_direction # 0
                THEN IF shift THEN <<Sprint(horizontal_direction)>>
                     ELSE <<Walk(horizontal_direction)>>
                ELSE <<>>
        jump == IF space THEN <<Jump>> ELSE <<>>
    IN  walk \o jump

keyboard_input ==
    /\ IsNext("keyboard_input")
    /\ \E left \in BOOLEAN, right \in BOOLEAN, shift \in BOOLEAN, space \in BOOLEAN :
         events' = keyboard_events(left, right, shift, space)
    /\ Advance("keyboard_input")
    /\ UNCHANGED <<config, velocity, translation, grounded, hits, seenGrounded,
                   steps, world, calls>>
    /\ UNCHANGED mainVars

\* (rotation * -hit.normal2).angle_to(Vector::Y).abs(), in degrees
slope_angle(rotation, normal2) ==
    LET inverted == (normal2 + 180) % 360
        rotated == (inverted + rotation) % 360
        diff == (90 - rotated) % 360
        signed == IF diff > 180 THEN diff - 360 ELSE diff
    IN  Abs(signed)

\* the closure of update_grounded: does this hit count as ground
hit_is_ground(rotation, max_slope_angle, normal2) ==
    IF max_slope_angle # NoMaxSlope
    THEN \A angle \in max_slope_angle : slope_angle(rotation, normal2) <= angle
    ELSE TRUE

\* hits.iter().any(..)
is_grounded(hs, rotation, max_slope_angle) ==
    \E h \in hs : hit_is_ground(rotation, max_slope_angle, h)

\* update_grounded, with the insert/remove command applied at the sync point
\* that chain() places on the edge after a system with deferred parameters
update_grounded_sticky ==
    /\ IsNext("update_grounded")
    /\ grounded' = (grounded \/ is_grounded(hits, config.rotation,
                                            config.movement.max_slope_angle))
    /\ Advance("update_grounded")
    /\ UNCHANGED <<config, velocity, translation, hits, events, seenGrounded,
                   steps, world, calls>>
    /\ UNCHANGED mainVars

update_grounded ==
    /\ IsNext("update_grounded")
    /\ grounded' = is_grounded(hits, config.rotation, config.movement.max_slope_angle)
    /\ Advance("update_grounded")
    /\ UNCHANGED <<config, velocity, translation, hits, events, seenGrounded,
                   steps, world, calls>>
    /\ UNCHANGED mainVars

apply_gravity ==
    /\ IsNext("apply_gravity")
    /\ velocity' = VecAdd(velocity, config.gravity)
    /\ Advance("apply_gravity")
    /\ UNCHANGED <<config, translation, grounded, hits, events, seenGrounded,
                   steps, world, calls>>
    /\ UNCHANGED mainVars

\* one arm of the match in `movement`
apply_action_gated(v, event, m, grounded_now) ==
    IF event.kind = "Jump"
    THEN IF grounded_now THEN <<v[1], m.jump_impulse>> ELSE v
    ELSE <<event.direction * m.acceleration, v[2]>>

apply_action(v, event, m, grounded_now) ==
    IF event.kind = "Walk" THEN <<event.direction * m.acceleration, v[2]>>
    ELSE IF event.kind = "Sprint" THEN <<event.direction * m.acceleration, v[2]>>
    ELSE IF grounded_now \/ ~grounded_now THEN <<v[1], m.jump_impulse>>
    ELSE v

\* for event in movement_events.read() { .. }: the events in arrival order
RECURSIVE apply_events_reversed(_, _, _, _)
apply_events_reversed(v, evs, m, grounded_now) ==
    IF evs = <<>> THEN v
    ELSE apply_events_reversed(apply_action(v, Last(evs), m, grounded_now),
                               SubSeq(evs, 1, Len(evs) - 1), m, grounded_now)

RECURSIVE apply_events(_, _, _, _)
apply_events(v, evs, m, grounded_now) ==
    IF evs = <<>> THEN v
    ELSE apply_events(apply_action(v, Head(evs), m, grounded_now),
                      Tail(evs), m, grounded_now)

movement ==
    /\ IsNext("movement")
    /\ velocity' = apply_events(velocity, events, config.movement, grounded)
    /\ seenGrounded' = [i \in DOMAIN events |-> grounded]
    /\ Advance("movement")
    /\ UNCHANGED <<config, translation, grounded, hits, events, steps, world, calls>>
    /\ UNCHANGED mainVars

apply_damping_both_axes ==
    /\ IsNext("apply_damping")
    /\ velocity' = <<MulScaled(velocity[1], config.movement.damping, 1000),
                     MulScaled(velocity[2], config.movement.damping, 1000)>>
    /\ Advance("apply_damping")
    /\ UNCHANGED <<config, translation, grounded, hits, events, seenGrounded,
                   steps, world, calls>>
    /\ UNCHANGED mainVars

apply_damping ==
    /\ IsNext("apply_damping")
    /\ velocity' = <<MulScaled(velocity[1], config.movement.damping, 1000), velocity[2]>>
    /\ Advance("apply_damping")
    /\ UNCHANGED <<config, translation, grounded, hits, events, seenGrounded,
                   steps, world, calls>>
    /\ UNCHANGED mainVars

(* --------------------------- the resolver ----------------------------- *)
\* Dir2::new: Err for a zero-length vector.  The callers pass one axis of the
\* velocity at a time, so every vector here lies on an axis.
Dir2_new(v) == <<Sign(v[1]), Sign(v[2])>>

\* Vector::length of a vector that lies on an axis
length(v) == Abs(v[1]) + Abs(v[2])

\* 'bounces: for _ in 0..MAX_BOUNCES { if let Some(hit) = cast_shape(..) {} }
RECURSIVE bounces(_, _, _, _, _, _)
bounces(n, limit, w, cast_direction, cast_distance, acc) ==
    IF n >= limit THEN acc
    ELSE bounces(n + 1, limit, w, cast_direction, cast_distance,
                 [acc EXCEPT !.queries = Append(@,
                     [direction |-> cast_direction,
                      max_distance |-> cast_distance + SKIN_WIDTH,
                      hit |-> cast_shape(w, cast_direction,
                                         cast_distance + SKIN_WIDTH)])])

collide_and_slide_no_zero_check(position, v, w) ==
    bounces(0, MAX_BOUNCES, w, Dir2_new(v), length(v),
            [input |-> v, queries |-> <<>>, result |-> Zero])

collide_and_slide_extra_bounce(position, v, w) ==
    IF Dir2_new(v) = Zero
    THEN [input |-> v, queries |-> <<>>, result |-> Zero]
    ELSE bounces(0, MAX_BOUNCES + 1, w, Dir2_new(v), length(v),
                 [input |-> v, queries |-> <<>>, result |-> Zero])

\* returns the invocation: its input, the shape casts it made, its result;
\* the surfaces of w are given relative to `position`
collide_and_slide(position, v, w) ==
    IF Dir2_new(v) = Zero
    THEN [input |-> v, queries |-> <<>>, result |-> Zero]
    ELSE bounces(0, MAX_BOUNCES, w, Dir2_new(v), length(v),
                 [input |-> v, queries |-> <<>>, result |-> Zero])

DeltaMillis == {100}

\* One step of the PhysicsSchedule.  The engine refreshes the spatial query
\* pipeline and the ground caster's ShapeHits; kinematic_collision_response
\* then resolves the horizontal and the vertical displacement and moves the
\* transform by their sum.
kinematic_collision_response ==
    /\ AtFrameBoundary
    /\ steps < MaxSteps
    /\ steps' = steps + 1
    /\ \E w \in Worlds, hs \in SUBSET HitNormals, delta \in DeltaMillis :
         LET horizontal == collide_and_slide(translation,
                               <<MulScaled(velocity[1], delta, 1000), 0>>, w)
             vertical == collide_and_slide(translation,
                               <<0, MulScaled(velocity[2], delta, 1000)>>, w)
             new_motion == VecAdd(horizontal.result, vertical.result)
         IN  /\ world' = w
             /\ hits' = hs
             /\ calls' = <<horizontal, vertical>>
             /\ translation' = VecAdd(translation, new_motion)
    /\ UNCHANGED <<config, velocity, grounded, events, seenGrounded, ran, frame>>
    /\ UNCHANGED mainVars

Next ==
    \/ keyboard_input
    \/ update_grounded
    \/ apply_gravity
    \/ movement
    \/ apply_damping
    \/ kinematic_collision_response

Spec == Init /\ [][Next]_vars

(* ----------------- `movement` on any event stream --------------------- *)
\* The MovementAction events are an input of `movement`: MovementSpec starts
\* the system on every stream of at most MaxEvents events, at the point of
\* the chain where it runs.
RECURSIVE SeqsUpTo(_, _)
SeqsUpTo(S, n) ==
    IF n = 0 THEN {<<>>}
    ELSE LET shorter == SeqsUpTo(S, n - 1)
         IN  shorter \cup {Append(q, x) : q \in shorter, x \in S}

MovementInit ==
    /\ config \in Configs
    /\ velocity \in {<<0, -25000>>, <<-27000, -18000>>}
    /\ translation = Zero
    /\ grounded \in BOOLEAN
    /\ hits = {}
    /\ events \in SeqsUpTo(MovementAction, MaxEvents)
    /\ seenGrounded = <<>>
    /\ ran = <<"keyboard_input", "update_grounded", "apply_gravity">>
    /\ frame = 1
    /\ steps = 0
    /\ world = Clear
    /\ calls = <<>>
    /\ InitMain

MovementNext == movement

MovementSpec == MovementInit /\ [][MovementNext]_vars

(* ============================ main.rs ================================= *)
\* Velocities of this draft are in 1/FixedHz world unit per second and
\* lengths in 1/FixedHz^2 world unit, so that with delta_secs = 1/FixedHz
\*   GRAVITY * delta_secs      is GRAVITY,
\*   velocity.y.abs() * delta  is |velocity.y|,
\*   hit.distance / delta      is hit.distance.
FixedHz == 60
HORIZONTAL_PLAYER_SPEED == 100
GRAVITY == 100
JUMP_SPEED == 50

HorizontalMovement(magnitude) == [kind |-> "HorizontalMovement", magnitude |-> magnitude]

SetPosition == [kind |-> "SetPosition", magnitude |-> 0]

MainJump == [kind |-> "Jump", magnitude |-> 0]

\* controller_input: the events one frame's key state produces
controller_events(key_d, key_a, space, key_r) ==
    LET horizontal_velocity == IF key_d THEN 1 ELSE IF key_a THEN -1 ELSE 0
    IN  <<HorizontalMovement(horizontal_velocity)>>
        \o (IF space THEN <<MainJump>> ELSE <<>>)
        \o (IF key_r THEN <<SetPosition>> ELSE <<>>)

controller_input ==
    /\ mPhase = "idle"
    /\ \E key_d \in BOOLEAN, key_a \in BOOLEAN, space \in BOOLEAN, key_r \in BOOLEAN :
         /\ Len(mEvents) + Len(controller_events(key_d, key_a, space, key_r)) <= MaxPending
         /\ mEvents' = mEvents \o controller_events(key_d, key_a, space, key_r)
    /\ UNCHANGED <<mVelocity, mTranslation, mPhase, mTicks>>
    /\ UNCHANGED pluginVars

\* the body of the event loop of controller_movement: the match, then gravity
controller_event(body, event) ==
    LET v == body.velocity
        matched ==
            IF event.kind = "HorizontalMovement"
            THEN [body EXCEPT !.velocity = <<event.magnitude * HORIZONTAL_PLAYER_SPEED * FixedHz, v[2]>>]
            ELSE IF event.kind = "Jump"
            THEN [body EXCEPT !.velocity = <<v[1], JUMP_SPEED * FixedHz>>]
            ELSE [body EXCEPT !.translation = CONTROLLER_INITIAL_POSITION]
    IN  [matched EXCEPT !.velocity = <<@[1], @[2] - GRAVITY>>]

RECURSIVE controller_events_loop(_, _)
controller_events_loop(body, evs) ==
    IF evs = <<>> THEN body
    ELSE controller_events_loop(controller_event(body, Head(evs)), Tail(evs))

\* controller_movement, once per FixedUpdate tick, reads every unread event
controller_movement ==
    /\ mPhase = "idle"
    /\ mTicks < MaxMainTicks
    /\ LET after == controller_events_loop(
                        [velocity |-> mVelocity, translation |-> mTranslation], mEvents)
       IN  /\ mVelocity' = after.velocity
           /\ mTranslation' = after.translation
    /\ mEvents' = <<>>
    /\ mPhase' = "physics"
    /\ mTicks' = mTicks + 1
    /\ UNCHANGED pluginVars

MainHitDistances == {0, 50}

\* collision_response, in the PhysicsSchedule of the same fixed tick: the
\* shape cast along the vertical velocity answers with no hit or with a hit
\* within max_distance
collision_response ==
    /\ mPhase = "physics"
    /\ mPhase' = "idle"
    /\ IF Sign(mVelocity[2]) = 0
       THEN mVelocity' = mVelocity
       ELSE \E hit \in {NoHit} \cup
                       {[distance |-> d, normal |-> <<0, -1000 * Sign(mVelocity[2])>>] :
                           d \in {x \in MainHitDistances : x <= Abs(mVelocity[2])}} :
              IF hit # NoHit
              THEN mVelocity' = <<mVelocity[1], hit.distance * Sign(mVelocity[2])>>
              ELSE mVelocity' = mVelocity
    /\ UNCHANGED <<mTranslation, mEvents, mTicks>>
    /\ UNCHANGED pluginVars

MainNext ==
    \/ controller_input
    \/ controller_movement
    \/ collision_response

MainSpec == Init /\ [][MainNext]_vars

(* ============================= claims ================================= *)
\* a step of the Update chain that runs system s
SystemStep(s) == ran' # ran /\ Last(ran') = s

IsWalkOrSprint(e) == e.kind \in {"Walk", "Sprint"}

AllHit(call) == \A i \in DOMAIN call.queries : call.queries[i].hit # NoHit

NoneHit(call) == \A i \in DOMAIN call.queries : call.queries[i].hit = NoHit

(* C1: a non-zero desired displacement for which no shape cast reports a   *)
(* hit comes back from collide_and_slide unchanged.                        *)
C1_UnobstructedIsIdentity ==
    \A i \in DOMAIN calls :
        (calls[i].input # Zero /\ NoneHit(calls[i])) => calls[i].result = calls[i].input

(* C2: when the first cast hits a surface at distance d whose normal is    *)
(* antiparallel to the motion, the result is direction * max(d -           *)
(* SKIN_WIDTH, 0): (0, -5) against a floor at 4.98 gives (0, -4.965).      *)
C2_StopsShortOfSurface ==
    \A i \in DOMAIN calls :
        LET call == calls[i]
            dir == Dir2_new(call.input)
        IN  (/\ call.queries # <<>>
             /\ call.queries[1].hit # NoHit
             /\ call.queries[1].hit.normal = <<-1000 * dir[1], -1000 * dir[2]>>)
            => LET d == call.queries[1].hit.distance
                   advance == IF d - SKIN_WIDTH > 0 THEN d - SKIN_WIDTH ELSE 0
               IN  /\ call.result = <<dir[1] * advance, dir[2] * advance>>
                   /\ (call.input = <<0, -5000>> /\ d = 4980
                          => call.result = <<0, -4965>>)

(* C3: collide_and_slide on a zero displacement returns zero and casts no  *)
(* shape, in every physics step of every run.                              *)
C3_ZeroDisplacementNoQuery ==
    \A i \in DOMAIN calls :
        calls[i].input = Zero => (calls[i].result = Zero /\ calls[i].queries = <<>>)

C3_Witness ==
    /\ steps = 2
    /\ frame >= 1
    /\ calls[1].input = Zero
    /\ calls[1].queries = <<>>
    /\ calls[1].result = Zero
    /\ calls[2].input # Zero

(* C4: every invocation of collide_and_slide returns a result after at     *)
(* most MAX_BOUNCES shape casts, also when every cast reports a hit.       *)
C4_AtMostMaxBounces ==
    \A i \in DOMAIN calls :
        /\ Len(calls[i].queries) <= MAX_BOUNCES
        /\ calls[i].result \in Int \X Int

C4_Witness ==
    \E i \in DOMAIN calls :
        /\ Len(calls[i].queries) = MAX_BOUNCES
        /\ AllHit(calls[i])

(* C5: `movement` applies the events in arrival order: the horizontal      *)
(* velocity it leaves is direction * acceleration of the last Walk or      *)
(* Sprint (the old one when there is none), and without a Jump the         *)
(* vertical velocity is unchanged.                                         *)
C5_LastWalkOrSprintWins ==
    [][SystemStep("movement") =>
        LET walks == {i \in DOMAIN events : IsWalkOrSprint(events[i])}
            last == CHOOSE i \in walks : \A j \in walks : j <= i
        IN  /\ velocity'[1] = IF walks = {} THEN velocity[1]
                              ELSE events[last].direction * config.movement.acceleration
            /\ (Jump \notin Range(events) => velocity'[2] = velocity[2])]_vars

C5_Witness ==
    /\ ran # <<>>
    /\ Last(ran) = "movement"
    /\ events = <<Walk(1), Jump, Sprint(-1)>>
    /\ velocity = <<-config.movement.acceleration, config.movement.jump_impulse>>

(* C6: a Jump sets the vertical velocity to jump_impulse whether or not    *)
(* the controller is Grounded, and by itself leaves the horizontal         *)
(* velocity alone.                                                         *)
C6_JumpUnconditional ==
    [][(SystemStep("movement") /\ Jump \in Range(events)) =>
        /\ velocity'[2] = config.movement.jump_impulse
        /\ ((\A i \in DOMAIN events : ~IsWalkOrSprint(events[i]))
               => velocity'[1] = velocity[1])]_vars

C6_Witness ==
    /\ ran # <<>>
    /\ Last(ran) = "movement"
    /\ events = <<Jump>>
    /\ ~grounded
    /\ seenGrounded = <<FALSE>>
    /\ velocity[2] = config.movement.jump_impulse

(* C7: apply_damping runs after apply_gravity of the same tick and scales  *)
(* the horizontal velocity only: the vertical velocity is unchanged.       *)
C7_GravityThenHorizontalDamping ==
    [][SystemStep("apply_damping") =>
        /\ "apply_gravity" \in Range(ran)
        /\ velocity'[2] = velocity[2]
        /\ velocity'[1] = MulScaled(velocity[1], config.movement.damping, 1000)]_vars

C7_Witness ==
    /\ ran # <<>>
    /\ Last(ran) = "apply_damping"
    /\ velocity[1] = MulScaled(config.movement.acceleration, config.movement.damping, 1000)
    /\ velocity[2] = 2 * config.gravity[2]

(* C8: after update_grounded the controller is Grounded exactly when some  *)
(* current hit is within the maximum slope angle of up (any hit when no    *)
(* maximum is set); no hits means not Grounded; the earlier flag plays no  *)
(* part.                                                                   *)
C8_Expected ==
    IF hits = {} THEN FALSE
    ELSE IF config.movement.max_slope_angle = NoMaxSlope THEN TRUE
    ELSE \E h \in hits : \E a \in config.movement.max_slope_angle :
            slope_angle(config.rotation, h) <= a

C8_GroundedFromHits ==
    [][SystemStep("update_grounded") => grounded' = C8_Expected]_vars

C8_Witness ==
    /\ frame = 2
    /\ Last(ran) = "update_grounded"
    /\ seenGrounded = <<TRUE>>
    /\ config.movement.max_slope_angle = Some(45)
    /\ config.rotation = 0
    /\ hits = {210}
    /\ ~grounded

(* C9 as stated: the systems of a tick run in the order Intent, Gravity,   *)
(* Grounding.                                                              *)
Position(s) == CHOOSE i \in DOMAIN ran : ran[i] = s

InOrder(a, b) ==
    b \in Range(ran) => (a \in Range(ran) /\ Position(a) < Position(b))

ClaimedOrder ==
    <<"keyboard_input", "update_grounded", "apply_gravity", "movement", "apply_damping">>

C10_GravityOncePerTick ==
    [][(mPhase = "idle" /\ mPhase' = "physics") =>
        mVelocity'[2] = (IF MainJump \in Range(mEvents)
                         THEN JUMP_SPEED * FixedHz ELSE mVelocity[2]) - GRAVITY]_vars

====
